---- MODULE Spec2Model ----
(***************************************************************************)
(* Patient appointment queue: the priority scheduling engine              *)
(* (dsa/scheduler.py), the 4-lane priority queue (dsa/queue.py), the      *)
(* patient linked list (dsa/linked_list.py), and the appointments table   *)
(* with the register_patient and doctor_dashboard handlers (app.py).      *)
(*                                                                         *)
(* Python values are modelled as tagged records:                          *)
(*   None            [tag |-> "None"]                                      *)
(*   a label string  [tag |-> "str", s |-> <<"c","r","i",...>>]           *)
(*   a date string   [tag |-> "date", d |-> 1]      ("2025-02-01")         *)
(*   a time string   [tag |-> "time", m |-> 1, aware |-> FALSE] ("09:00")  *)
(*   an ISO string   [tag |-> "iso", t |-> 1, aware |-> TRUE]              *)
(*   a junk string   [tag |-> "junk"]     (non-empty, parses as nothing)   *)
(*   the empty str   [tag |-> "str", s |-> <<>>]                           *)
(*   a datetime      [tag |-> "datetime", t |-> 1, aware |-> TRUE]         *)
(***************************************************************************)
EXTENDS Integers, Sequences, FiniteSets, TLC

\* ------------------------------------------------------------------------
\* Bounds of the model
\* ------------------------------------------------------------------------
\* longest snapshot handed to the engine
MaxLen == 3
\* most whitespace characters put on either side of a label
MaxPad == 1
\* most items held by the free-standing PriorityQueue
MaxQueue == 3

\* inserts made into a PatientLinkedList driven by a caller
MaxList == 3

\* rows of a snapshot when the engine is called again and again
MaxCallLen == 2

\* rows of a snapshot of each of two concurrent callers
MaxThreadLen == 2

\* rows of the appointments table
MaxAppts == 3

\* rows of a snapshot whose call is followed statement by statement
MaxLoadLen == 2

\* runs of init_db on one database file
MaxRuns == 3

\* ------------------------------------------------------------------------
\* Python strings: lower(), strip(), `x or default`
\* ------------------------------------------------------------------------
None == [tag |-> "None"]

Str(chars) == [tag |-> "str", s |-> chars]

EmptyStr == Str(<< >>)

Junk == [tag |-> "junk"]

\* the cased letters: upper-case |-> lower-case
LowerMap ==
    ("A" :> "a") @@ ("B" :> "b") @@ ("C" :> "c") @@ ("D" :> "d") @@
    ("E" :> "e") @@ ("F" :> "f") @@ ("G" :> "g") @@ ("H" :> "h") @@
    ("I" :> "i") @@ ("J" :> "j") @@ ("K" :> "k") @@ ("L" :> "l") @@
    ("M" :> "m") @@ ("N" :> "n") @@ ("O" :> "o") @@ ("P" :> "p") @@
    ("Q" :> "q") @@ ("R" :> "r") @@ ("S" :> "s") @@ ("T" :> "t") @@
    ("U" :> "u") @@ ("V" :> "v") @@ ("W" :> "w") @@ ("X" :> "x") @@
    ("Y" :> "y") @@ ("Z" :> "z")

UpperLetters ==
    {"A","B","C","D","E","F","G","H","I","J","K","L","M",
     "N","O","P","Q","R","S","T","U","V","W","X","Y","Z"}

\* str.lower() on one character: the cased letters, others unchanged
LowerChar(ch) == IF ch \in UpperLetters THEN LowerMap[ch] ELSE ch

\* str.upper() on one character
UpperChar(ch) ==
    IF \E u \in UpperLetters : LowerMap[u] = ch
    THEN CHOOSE u \in UpperLetters : LowerMap[u] = ch
    ELSE ch

Whitespace == {" ", "\t", "\n"}

RECURSIVE lower(_)
\* str.lower() on the characters of a string
lower(chars) ==
    IF Len(chars) = 0 THEN << >>
    ELSE <<LowerChar(Head(chars))>> \o lower(Tail(chars))

RECURSIVE lstrip(_)
\* drop leading whitespace
lstrip(chars) ==
    IF Len(chars) > 0 /\ chars[1] \in Whitespace THEN lstrip(Tail(chars)) ELSE chars

RECURSIVE rstrip(_)
\* drop trailing whitespace
rstrip(chars) ==
    IF Len(chars) > 0 /\ chars[Len(chars)] \in Whitespace
    THEN rstrip(SubSeq(chars, 1, Len(chars) - 1)) ELSE chars

\* str.strip(): drop leading and trailing whitespace
strip(chars) == rstrip(lstrip(chars))

\* Python truthiness of the values a dict field can hold
Truthy(v) ==
    CASE v.tag = "None" -> FALSE
      [] v.tag = "str"  -> Len(v.s) > 0
      [] OTHER          -> TRUE

\* Python `v or default`
PyOr(v, default) == IF Truthy(v) THEN v ELSE default

\* ------------------------------------------------------------------------
\* dsa/queue.py: PRIORITY_ORDER and priority_rank
\* ------------------------------------------------------------------------
critical  == <<"c","r","i","t","i","c","a","l">>
emergency == <<"e","m","e","r","g","e","n","c","y">>
accident  == <<"a","c","c","i","d","e","n","t">>
normal    == <<"n","o","r","m","a","l">>

PRIORITY_ORDER == <<critical, emergency, accident, normal>>

\* (p or "normal").lower().strip() on a label value
NormLabel(p) == strip(lower(PyOr(p, Str(normal)).s))

\* priority_rank without the lower(): only exact-case labels match
priority_rank_CaseSensitive(p) ==
    LET q == strip(PyOr(p, Str(normal)).s)
        hits == {i \in 1..Len(PRIORITY_ORDER) : PRIORITY_ORDER[i] = q}
    IN  IF hits # {}
        THEN (CHOOSE i \in hits : \A j \in hits : i <= j) - 1
        ELSE 3

\* enumerate(PRIORITY_ORDER) is 0-based: the first match, else 3
priority_rank(p) ==
    LET q == NormLabel(p)
        hits == {i \in 1..Len(PRIORITY_ORDER) : PRIORITY_ORDER[i] = q}
    IN  IF hits # {}
        THEN (CHOOSE i \in hits : \A j \in hits : i <= j) - 1
        ELSE 3

\* ------------------------------------------------------------------------
\* datetime values, datetime.fromisoformat, comparison
\* ------------------------------------------------------------------------
DateTime(t, aware) == [tag |-> "datetime", t |-> t, aware |-> aware]

\* datetime.min is timezone-naive and precedes every parsed instant
datetime_min == DateTime(0, FALSE)

\* the times of day a time string can name
TimesOfDay == {1, 2}

\* instant denoted by date d and time of day m; 0 is datetime.min
Combine(d, m) == (d - 1) * Cardinality(TimesOfDay) + m

\* datetime.__eq__: a naive and an aware datetime are never equal
DtEq(a, b) == a.aware = b.aware /\ a.t = b.t

\* datetime.__lt__: "lt", "ge", or "TypeError" for naive against aware
DtLt(a, b) ==
    IF a.aware # b.aware THEN "TypeError"
    ELSE IF a.t < b.t THEN "lt" ELSE "ge"

\* datetime.fromisoformat(value): the datetime, or ValueError
fromisoformat(v) ==
    CASE v.tag = "iso" -> [ok |-> TRUE, dt |-> DateTime(v.t, v.aware)]
      [] OTHER         -> [ok |-> FALSE, dt |-> datetime_min]

\* datetime.isoformat(): the inverse rendering of a datetime
isoformat(dt) == [tag |-> "iso", t |-> dt.t, aware |-> dt.aware]

\* f"{date_str}T{time_str}" parsed by datetime.fromisoformat
fromisoformat_joined(date_str, time_str) ==
    IF date_str.tag = "date" /\ time_str.tag = "time"
    THEN [ok |-> TRUE, dt |-> DateTime(Combine(date_str.d, time_str.m), time_str.aware)]
    ELSE [ok |-> FALSE, dt |-> datetime_min]

\* (value or "").strip() on a date or time field
StripField(v) ==
    LET w == PyOr(v, EmptyStr)
    IN  IF w.tag = "str" THEN Str(strip(w.s)) ELSE w

\* ------------------------------------------------------------------------
\* dsa/scheduler.py: parsers
\* ------------------------------------------------------------------------
_parse_created_at(value) ==
    IF value.tag = "datetime" THEN value
    ELSE IF value.tag # "None" /\ Truthy(value)
    THEN LET r == fromisoformat(value)
         IN  IF r.ok THEN r.dt ELSE datetime_min
    ELSE datetime_min

_parse_appointment_datetime(date_str, time_str, fallback) ==
    LET d == StripField(date_str)
        t == StripField(time_str)
    IN  IF ~Truthy(d) \/ ~Truthy(t) THEN fallback
        ELSE LET r == fromisoformat_joined(d, t)
             IN  IF r.ok THEN r.dt ELSE fallback

\* ------------------------------------------------------------------------
\* dsa/linked_list.py: PatientNode, PatientLinkedList
\* A list is [head |-> address, heap |-> <<node, ...>>]; address 0 is None.
\* ------------------------------------------------------------------------
NoAddr == 0

PatientNode(a) ==
    [appointment_id   |-> a.id,
     name             |-> PyOr(a.name, EmptyStr),
     priority         |-> Str(NormLabel(a.priority)),
     appointment_date |-> PyOr(a.appointment_date, EmptyStr),
     appointment_time |-> PyOr(a.appointment_time, EmptyStr),
     created_at       |-> a.created_at,
     next             |-> NoAddr]

PatientLinkedList == [head |-> NoAddr, heap |-> << >>]

RECURSIVE LastAddr(_, _)
\* the `while current.next is not None` walk to the tail
LastAddr(heap, current) ==
    IF heap[current].next = NoAddr THEN current
    ELSE LastAddr(heap, heap[current].next)

\* insert that links the new node right after the head, without the walk
insert_LinksAfterHead(list, a) ==
    LET node == PatientNode(a)
        addr == Len(list.heap) + 1
        heap == Append(list.heap, node)
    IN  IF list.head = NoAddr
        THEN [head |-> addr, heap |-> heap]
        ELSE [head |-> list.head,
              heap |-> [heap EXCEPT ![list.head].next = addr]]

insert_from_appointment_dict(list, a) ==
    LET node == PatientNode(a)
        addr == Len(list.heap) + 1
        heap == Append(list.heap, node)
    IN  IF list.head = NoAddr
        THEN [head |-> addr, heap |-> heap]
        ELSE LET tail == LastAddr(list.heap, list.head)
             IN  [head |-> list.head,
                  heap |-> [heap EXCEPT ![tail].next = addr]]

RECURSIVE Traverse_StopsAtTail(_, _)
\* the walk of to_list under `while current.next is not None`
Traverse_StopsAtTail(heap, current) ==
    IF current = NoAddr THEN << >>
    ELSE IF heap[current].next = NoAddr THEN << >>
    ELSE <<heap[current]>> \o Traverse_StopsAtTail(heap, heap[current].next)

RECURSIVE Traverse(_, _)
\* the `while current is not None` walk of to_list
Traverse(heap, current) ==
    IF current = NoAddr THEN << >>
    ELSE <<heap[current]>> \o Traverse(heap, heap[current].next)

\* PatientLinkedList.to_list
list_to_list(list) == Traverse(list.heap, list.head)

RECURSIVE RemoveWalk_AlwaysMovesHead(_, _, _, _)
\* the walk of remove_by_id with `self.head = current.next` on both branches
RemoveWalk_AlwaysMovesHead(list, prev, current, appointment_id) ==
    IF current = NoAddr THEN [removed |-> FALSE, list |-> list]
    ELSE IF list.heap[current].appointment_id = appointment_id
    THEN [removed |-> TRUE,
          list    |-> [list EXCEPT !.head = list.heap[current].next]]
    ELSE RemoveWalk_AlwaysMovesHead(list, current, list.heap[current].next,
                                    appointment_id)

RECURSIVE RemoveWalk(_, _, _, _)
\* the `while current is not None` walk of remove_by_id, from (prev, current)
RemoveWalk(list, prev, current, appointment_id) ==
    IF current = NoAddr THEN [removed |-> FALSE, list |-> list]
    ELSE IF list.heap[current].appointment_id = appointment_id
    THEN [removed |-> TRUE,
          list    |-> IF prev = NoAddr
                      THEN [list EXCEPT !.head = list.heap[current].next]
                      ELSE [list EXCEPT !.heap[prev].next =
                                            list.heap[current].next]]
    ELSE RemoveWalk(list, current, list.heap[current].next, appointment_id)

\* PatientLinkedList.remove_by_id: [removed, list]
remove_by_id(list, appointment_id) ==
    RemoveWalk(list, NoAddr, list.head, appointment_id)

\* ------------------------------------------------------------------------
\* dsa/queue.py: QueueItem, Queue, PriorityQueue
\* ------------------------------------------------------------------------
QueueItem(appointment_id, name, priority, appointment_date, appointment_time, created_at) ==
    [appointment_id   |-> appointment_id,
     name             |-> name,
     priority         |-> priority,
     appointment_date |-> appointment_date,
     appointment_time |-> appointment_time,
     created_at       |-> created_at]

\* to_dict without its "created_at" entry
to_dict_NoCreated(item) ==
    [appointment_id   |-> item.appointment_id,
     name             |-> item.name,
     priority         |-> item.priority,
     appointment_date |-> item.appointment_date,
     appointment_time |-> item.appointment_time]

\* QueueItem.to_dict; a datetime is always truthy
to_dict(item) ==
    [appointment_id   |-> item.appointment_id,
     name             |-> item.name,
     priority         |-> item.priority,
     appointment_date |-> item.appointment_date,
     appointment_time |-> item.appointment_time,
     created_at       |-> IF Truthy(item.created_at)
                          THEN isoformat(item.created_at) ELSE None]

\* PriorityQueue.__init__: one empty Queue per entry of PRIORITY_ORDER
PriorityQueue == << << >>, << >>, << >>, << >> >>

\* _queue_for that answers self._queues[0] for every priority
_queue_for_FirstLane(priority) == 1

\* PriorityQueue._queue_for: index of the lane (1-based in the model)
_queue_for(priority) == priority_rank(priority) + 1

\* enqueue with the lane's list.append replaced by insert(0, item)
enqueue_AtFront(pq, item) ==
    [pq EXCEPT ![_queue_for(item.priority)] = <<item>> \o @]

\* PriorityQueue.enqueue: Queue.enqueue on the lane of the item's priority
enqueue(pq, item) ==
    [pq EXCEPT ![_queue_for(item.priority)] = Append(@, item)]

\* PriorityQueue.is_empty
is_empty(pq) == \A i \in DOMAIN pq : Len(pq[i]) = 0

\* the scan run over self._queues[:-1]: the last lane is never looked at
NonEmptyLanes_SkipsLast(pq) == {i \in DOMAIN pq : Len(pq[i]) > 0 /\ i < Len(pq)}

\* lanes that `if not q.is_empty()` accepts
NonEmptyLanes(pq) == {i \in DOMAIN pq : Len(pq[i]) > 0}

\* a scan that stops at the fullest lane instead of the first non-empty one
FirstLane_Fullest(pq) ==
    CHOOSE i \in NonEmptyLanes(pq) :
        \A j \in NonEmptyLanes(pq) :
            Len(pq[i]) > Len(pq[j]) \/ (Len(pq[i]) = Len(pq[j]) /\ i <= j)

\* the lane the `for q in self._queues` scan stops at
FirstLane(pq) == CHOOSE i \in NonEmptyLanes(pq) : \A j \in NonEmptyLanes(pq) : i <= j

\* dequeue that reads the front record and leaves it in its lane
dequeue_KeepsItem(pq) ==
    IF NonEmptyLanes(pq) = {}
    THEN [item |-> None, pq |-> pq]
    ELSE [item |-> Head(pq[FirstLane(pq)]), pq |-> pq]

\* PriorityQueue.dequeue: [item, pq], item None when every lane is empty
dequeue(pq) ==
    IF NonEmptyLanes(pq) = {}
    THEN [item |-> None, pq |-> pq]
    ELSE [item |-> Head(pq[FirstLane(pq)]),
          pq   |-> [pq EXCEPT ![FirstLane(pq)] = Tail(@)]]

\* peek whose final `return None` is `return ""`
peek_EmptyString(pq) ==
    IF NonEmptyLanes(pq) = {} THEN EmptyStr ELSE Head(pq[FirstLane(pq)])

\* PriorityQueue.peek
peek(pq) ==
    IF NonEmptyLanes(pq) = {} THEN None ELSE Head(pq[FirstLane(pq)])

\* PriorityQueue.__len__
pq_len(pq) == Len(pq[1]) + Len(pq[2]) + Len(pq[3]) + Len(pq[4])

\* to_list that walks the lanes from the last to the first
pq_to_list_LastLaneFirst(pq) == pq[4] \o pq[3] \o pq[2] \o pq[1]

\* PriorityQueue.to_list: the lanes end to end, lane 0 first
pq_to_list(pq) == pq[1] \o pq[2] \o pq[3] \o pq[4]

\* ------------------------------------------------------------------------
\* dsa/scheduler.py: build_queue_item, the sort key and the sort
\* ------------------------------------------------------------------------
build_queue_item(appointment_id, name, priority, appointment_date, appointment_time, created_at) ==
    QueueItem(appointment_id, name,
              Str(NormLabel(priority)),
              PyOr(appointment_date, EmptyStr),
              PyOr(appointment_time, EmptyStr),
              created_at)

\* one entry of enriched_items for a node
Enrich(node) ==
    LET p       == Str(NormLabel(node.priority))
        prio    == IF \E i \in 1..Len(PRIORITY_ORDER) : PRIORITY_ORDER[i] = p.s
                   THEN p ELSE Str(normal)
        created == _parse_created_at(node.created_at)
        appt_dt == _parse_appointment_datetime(node.appointment_date,
                                               node.appointment_time, created)
    IN  [rank |-> priority_rank(prio), appt_dt |-> appt_dt,
         created |-> created, node |-> node]

\* KeyLt with the key cut to (x[0], x[1]): createdAt is not compared
KeyLt_IgnoresCreated(x, y) ==
    IF x.rank # y.rank THEN (IF x.rank < y.rank THEN "lt" ELSE "ge")
    ELSE IF ~DtEq(x.appt_dt, y.appt_dt) THEN DtLt(x.appt_dt, y.appt_dt)
    ELSE "ge"

\* KeyLt with the key cut to (x[0], x[2]): the due time is not compared
KeyLt_IgnoresDue(x, y) ==
    IF x.rank # y.rank THEN (IF x.rank < y.rank THEN "lt" ELSE "ge")
    ELSE IF ~DtEq(x.created, y.created) THEN DtLt(x.created, y.created)
    ELSE "ge"

\* key(x) < key(y) on the tuples (x[0], x[1], x[2]): the first component
\* that differs under == decides under <
KeyLt(x, y) ==
    IF x.rank # y.rank THEN (IF x.rank < y.rank THEN "lt" ELSE "ge")
    ELSE IF ~DtEq(x.appt_dt, y.appt_dt) THEN DtLt(x.appt_dt, y.appt_dt)
    ELSE IF ~DtEq(x.created, y.created) THEN DtLt(x.created, y.created)
    ELSE "ge"

RECURSIVE BinarySearch_BeforeEquals(_, _, _, _)
\* BinarySearch that puts the pivot before the entries equal to it
BinarySearch_BeforeEquals(a, pivot, l, r) ==
    IF l >= r THEN l
    ELSE LET p == l + ((r - l) \div 2)
             c == KeyLt(a[p + 1], pivot)
         IN  IF c = "TypeError" THEN -1
             ELSE IF c = "lt" THEN BinarySearch_BeforeEquals(a, pivot, p + 1, r)
             ELSE BinarySearch_BeforeEquals(a, pivot, l, p)

RECURSIVE BinarySearch(_, _, _, _)
\* where the pivot goes in the sorted prefix a (0-based bounds l, r): after
\* every entry not greater than it; -1 when a comparison raises
BinarySearch(a, pivot, l, r) ==
    IF l >= r THEN l
    ELSE LET p == l + ((r - l) \div 2)
             c == KeyLt(pivot, a[p + 1])
         IN  IF c = "TypeError" THEN -1
             ELSE IF c = "lt" THEN BinarySearch(a, pivot, l, p)
             ELSE BinarySearch(a, pivot, p + 1, r)

RECURSIVE BinarySort(_, _, _)
\* list.sort(key=...) on a short list: stable binary insertion of items[k..]
\* into the sorted prefix; the TypeError of a comparison propagates
BinarySort(a, items, k) ==
    IF k > Len(items) THEN [raised |-> FALSE, items |-> a]
    ELSE LET pos == BinarySearch(a, items[k], 0, Len(a))
         IN  IF pos = -1 THEN [raised |-> TRUE, items |-> << >>]
             ELSE BinarySort(SubSeq(a, 1, pos) \o <<items[k]>> \o SubSeq(a, pos + 1, Len(a)),
                             items, k + 1)

\* the engine without its sort statement: enriched_items stays in list order
SortEnriched_Skipped(items) == [raised |-> FALSE, items |-> items]

\* enriched_items.sort(key=lambda x: (x[0], x[1], x[2]))
SortEnriched(items) == BinarySort(<< >>, items, 1)

RECURSIVE EnrichAll(_, _)
\* for node in nodes: enriched_items.append((rank, appt_dt, created, node))
EnrichAll(nodes, k) ==
    IF k > Len(nodes) THEN << >>
    ELSE <<Enrich(nodes[k])>> \o EnrichAll(nodes, k + 1)

RECURSIVE DictsOf(_, _)
\* [x.to_dict() for x in pq.to_list()]
DictsOf(items, k) ==
    IF k > Len(items) THEN << >>
    ELSE <<to_dict(items[k])>> \o DictsOf(items, k + 1)

RECURSIVE InsertAll(_, _, _)
\* for a in appointments: patient_list.insert_from_appointment_dict(a)
InsertAll(list, appointments, k) ==
    IF k > Len(appointments) THEN list
    ELSE InsertAll(insert_from_appointment_dict(list, appointments[k]), appointments, k + 1)

RECURSIVE LoadQueue_LastFirst(_, _, _)
\* the loading loop run over reversed(enriched_items)
LoadQueue_LastFirst(pq, sorted, k) ==
    IF k > Len(sorted) THEN pq
    ELSE LET node == sorted[k].node
             item == build_queue_item(node.appointment_id, node.name, node.priority,
                                      node.appointment_date, node.appointment_time,
                                      _parse_created_at(node.created_at))
         IN  enqueue(LoadQueue_LastFirst(pq, sorted, k + 1), item)

RECURSIVE LoadQueue(_, _, _)
\* for _, _, _, node in enriched_items: pq.enqueue(build_queue_item(...))
LoadQueue(pq, sorted, k) ==
    IF k > Len(sorted) THEN pq
    ELSE LET node == sorted[k].node
             item == build_queue_item(node.appointment_id, node.name, node.priority,
                                      node.appointment_date, node.appointment_time,
                                      _parse_created_at(node.created_at))
         IN  LoadQueue(enqueue(pq, item), sorted, k + 1)

\* the engine with a read of appointments[0] ahead of step 1: IndexError on
\* an empty list
get_optimized_queue_list_ReadsFirst(appointments) ==
    LET patient_list   == InsertAll(PatientLinkedList, appointments, 1)
        nodes          == list_to_list(patient_list)
        enriched_items == EnrichAll(nodes, 1)
        sorted         == SortEnriched(enriched_items)
    IN  IF sorted.raised \/ appointments = << >>
        THEN [raised |-> TRUE, value |-> << >>]
        ELSE LET pq == LoadQueue(PriorityQueue, sorted.items, 1)
             IN  [raised |-> FALSE, value |-> DictsOf(pq_to_list(pq), 1)]

\* get_optimized_queue_list: [raised, value]; raised when the sort raises
get_optimized_queue_list(appointments) ==
    LET patient_list   == InsertAll(PatientLinkedList, appointments, 1)
        nodes          == list_to_list(patient_list)
        enriched_items == EnrichAll(nodes, 1)
        sorted         == SortEnriched(enriched_items)
    IN  IF sorted.raised THEN [raised |-> TRUE, value |-> << >>]
        ELSE LET pq == LoadQueue(PriorityQueue, sorted.items, 1)
             IN  [raised |-> FALSE, value |-> DictsOf(pq_to_list(pq), 1)]

\* ------------------------------------------------------------------------
\* Inputs of the engine: the snapshots a caller can hand over
\* ------------------------------------------------------------------------
\* priority labels of snapshot rows: rank 0 (padded, mixed case) and an
\* unrecognized label
SnapPriorities ==
    {Str(<<" ","C","r","i","t","i","c","a","l">>),
     Str(<<"U","R","G","E","N","T","!">>)}

DateStr(d) == [tag |-> "date", d |-> d]

TimeStr(m) == [tag |-> "time", m |-> m, aware |-> FALSE]

IsoStr(t, aware) == [tag |-> "iso", t |-> t, aware |-> aware]

\* (appointment_date, appointment_time): a blank date, or a valid pair
SnapAppointments ==
    {<<Str(<<" ">>), TimeStr(1)>>} \cup {<<DateStr(1), TimeStr(m)>> : m \in TimesOfDay}

\* created_at: unparsable, or timezone-aware as the application writes it
\* (datetime.now(timezone.utc).isoformat())
SnapCreated ==
    {Junk} \cup {IsoStr(Combine(1, m), TRUE) : m \in TimesOfDay}

\* the row dict of _appointment_rows_to_dicts; ids are the row positions
Row(id, prio, appt, created) ==
    [id               |-> id,
     name             |-> Str(<<"p">>),
     priority         |-> prio,
     appointment_date |-> appt[1],
     appointment_time |-> appt[2],
     created_at       |-> created,
     status           |-> "scheduled",
     doctor_id        |-> 1]

RowsAt(id) ==
    {Row(id, prio, appt, created) :
        prio \in SnapPriorities, appt \in SnapAppointments, created \in SnapCreated}

\* ------------------------------------------------------------------------
\* Inputs of the classifier: padded and re-cased variants of a base word
\* ------------------------------------------------------------------------
\* base words: the four labels, the empty string, and unrecognized ones
Words ==
    {critical, emergency, accident, normal, << >>,
     <<"u","r","g","e","n","t","!">>, <<"n","o","r","m">>}

RECURSIVE upper(_)
\* str.upper() on the characters of a string
upper(chars) ==
    IF Len(chars) = 0 THEN << >>
    ELSE <<UpperChar(Head(chars))>> \o upper(Tail(chars))

\* str.capitalize(): first character upper-cased
capitalize(chars) ==
    IF Len(chars) = 0 THEN << >> ELSE <<UpperChar(Head(chars))>> \o Tail(chars)

Cased(c, w) ==
    CASE c = "lower" -> w
      [] c = "upper" -> upper(w)
      [] OTHER       -> capitalize(w)

RECURSIVE Pad(_)
Pad(k) == IF k = 0 THEN << >> ELSE <<" ">> \o Pad(k - 1)

\* the label written with case c and l, r blanks around word w
LabelOf(w, c, l, r) == Str(Pad(l) \o Cased(c, w) \o Pad(r))

\* ------------------------------------------------------------------------
\* Inputs of the free-standing PriorityQueue
\* ------------------------------------------------------------------------
\* item priorities as a caller may write them: one per rank, and a bad one
ItemPriorities ==
    {Str(critical),
     Str(<<"E","M","E","R","G","E","N","C","Y">>),
     Str(<<" ","a","c","c","i","d","e","n","t">>),
     Str(<<"U","R","G","E","N","T","!">>)}

\* ------------------------------------------------------------------------
\* State
\* ------------------------------------------------------------------------
VARIABLES
    appointments,   \* the snapshot passed to get_optimized_queue_list
    pc,             \* engine call: "ready", "returned" or "raised"
    result,         \* the list returned (<< >> until then)
    word,           \* classifier: the base word the label was written from
    label,          \* classifier: the argument of priority_rank
    rank_out,       \* classifier: the value returned (-1 until then)
    _queues,        \* PriorityQueue._queues: the four lanes
    enq_count,      \* number of enqueue calls made so far
    op,             \* the last PriorityQueue operation
    returned,       \* what the last dequeue or peek returned
    patient_list,   \* a PatientLinkedList driven by a caller
    ins_count,      \* number of inserts made into patient_list so far
    list_op,        \* the last PatientLinkedList operation, argument, result
    stored,         \* the records inserted and not removed, oldest first
    residue,        \* the list and the queue the latest engine call built,
                    \* and how many records the call before it was given
    callers,        \* concurrent calls: each caller's snapshot, position,
                    \* local variables and result
    lists,          \* the PatientLinkedList objects of the process, by address
    queues,         \* the PriorityQueue objects of the process, by address
    table,          \* the appointments table, in id order
    raw,            \* the snapshot doctor_dashboard last passed to the engine
    req,            \* the latest request: handler, form action, the
                    \* doctor_id the dashboard served, the doctor_id of
                    \* the account logged in
    drain,          \* a drain of the queue: the records held when it began,
                    \* the values dequeue has returned since
    enriched,       \* the engine run statement by statement: its
                    \* enriched_items list
    db,             \* the database file: whether its tables exist, the users
                    \* rows, the numbers of doctors and appointments rows
    boot            \* the runs of init_db so far: how many, how the latest
                    \* ended, the database it started from

vars == <<appointments, pc, result, word, label, rank_out,
          _queues, enq_count, op, returned,
          patient_list, ins_count, list_op, stored, residue,
          callers, lists, queues, table, raw, req, drain, enriched,
          db, boot>>

engine_vars == <<appointments, pc, result>>

classifier_vars == <<word, label, rank_out>>

queue_vars == <<_queues, enq_count, op, returned>>

list_vars == <<patient_list, ins_count, list_op, stored>>

thread_vars == <<callers, lists, queues>>

app_vars == <<table, raw, req>>

drain_vars == <<drain>>

load_vars == <<enriched>>

initdb_vars == <<db, boot>>

\* everything but the engine's variables, and so on for each component
not_engine ==
    <<classifier_vars, queue_vars, list_vars, residue, thread_vars,
      app_vars,
      drain_vars, load_vars, initdb_vars>>

not_classifier ==
    <<engine_vars, queue_vars, list_vars, residue, thread_vars,
      app_vars,
      drain_vars, load_vars, initdb_vars>>

not_queue ==
    <<engine_vars, classifier_vars, list_vars, residue, thread_vars,
      app_vars,
      drain_vars, load_vars, initdb_vars>>

not_list ==
    <<engine_vars, classifier_vars, queue_vars, residue, thread_vars,
      app_vars,
      drain_vars, load_vars, initdb_vars>>

not_calls ==
    <<classifier_vars, queue_vars, list_vars, thread_vars,
      app_vars,
      drain_vars, load_vars, initdb_vars>>

not_app ==
    <<engine_vars, classifier_vars, queue_vars, list_vars, residue,
      thread_vars,
      drain_vars, load_vars, initdb_vars>>

not_drain ==
    <<engine_vars, classifier_vars, list_vars, residue, thread_vars,
      app_vars, load_vars, initdb_vars>>

not_load ==
    <<classifier_vars, enq_count, op, returned, list_vars, residue,
      thread_vars, app_vars, drain_vars, initdb_vars>>

not_initdb ==
    <<engine_vars, classifier_vars, queue_vars, list_vars, residue,
      thread_vars, app_vars, drain_vars, load_vars>>

not_threads ==
    <<engine_vars, classifier_vars, queue_vars, list_vars, residue,
      app_vars,
      drain_vars, load_vars, initdb_vars>>

EngineIdle == appointments = << >> /\ pc = "ready" /\ result = << >>

ClassifierIdle == word = << >> /\ label = None /\ rank_out = -1

QueueIdle ==
    _queues = PriorityQueue /\ enq_count = 0 /\ op = "init" /\ returned = None

ListIdle ==
    /\ patient_list = PatientLinkedList
    /\ ins_count = 0
    /\ list_op = [kind |-> "init", appointment_id |-> 0, ret |-> None]
    /\ stored = << >>

\* no call made yet: no list and no queue built
NoResidue == residue = [list |-> None, queue |-> None, earlier |-> -1]

\* no concurrent caller
ThreadsIdle == callers = << >> /\ lists = << >> /\ queues = << >>

\* no drain begun
DrainIdle ==
    drain = [on |-> FALSE, held |-> << >>, out |-> << >>, done |-> FALSE]

\* the engine is not being run statement by statement
LoadIdle == enriched = << >>

\* SQL NULL, Python None, in a doctor_id
NULL == 0

\* a database file that does not exist yet
NoDatabase == [tables |-> FALSE, users |-> << >>, doctors |-> 0, appointments |-> 0]

\* init_db has not run
DbIdle ==
    /\ db = NoDatabase
    /\ boot = [runs |-> 0, outcome |-> "none", before |-> NoDatabase]

\* an empty appointments table and no request made
AppIdle ==
    /\ table = << >>
    /\ raw = << >>
    /\ req = [handler |-> "none", action |-> "none", doctor_id |-> NULL,
              session_doctor |-> NULL]

\* ------------------------------------------------------------------------
\* The scheduling engine
\* ------------------------------------------------------------------------
Init ==
    /\ DrainIdle /\ LoadIdle /\ DbIdle
    /\ EngineIdle /\ ClassifierIdle /\ QueueIdle /\ ListIdle /\ NoResidue
    /\ ThreadsIdle /\ AppIdle

\* the caller adds one more row to the snapshot it is assembling
Register ==
    /\ pc = "ready"
    /\ Len(appointments) < MaxLen
    /\ \E r \in RowsAt(Len(appointments) + 1) : appointments' = Append(appointments, r)
    /\ UNCHANGED <<pc, result, not_engine>>

\* a call that sorts the caller's list in place: appointments.sort(key=...)
\* instead of sorting enriched_items
Schedule_SortsSnapshot ==
    /\ pc = "ready"
    /\ LET r == get_optimized_queue_list(appointments)
       IN  /\ pc' = IF r.raised THEN "raised" ELSE "returned"
           /\ result' = r.value
           /\ appointments' = IF r.raised THEN appointments
                              ELSE [i \in 1..Len(r.value) |->
                                       appointments[r.value[i].appointment_id]]
    /\ UNCHANGED not_engine

\* one call of get_optimized_queue_list(appointments): the call reads the
\* list and its dicts (a["id"], a.get(...)) and writes to neither
Schedule ==
    /\ pc = "ready"
    /\ LET r == get_optimized_queue_list(appointments)
       IN  /\ pc' = IF r.raised THEN "raised" ELSE "returned"
           /\ result' = r.value
    /\ UNCHANGED <<appointments, not_engine>>

Next == Register \/ Schedule

Spec == Init /\ [][Next]_vars

\* ------------------------------------------------------------------------
\* The classifier on its own
\* ------------------------------------------------------------------------
InitClassifier ==
    /\ DrainIdle /\ LoadIdle /\ DbIdle
    /\ EngineIdle /\ QueueIdle /\ ListIdle /\ NoResidue /\ ThreadsIdle
    /\ AppIdle
    /\ rank_out = -1
    /\ \E w \in Words, c \in {"lower", "upper", "capitalized"},
          l \in 0..MaxPad, r \in 0..MaxPad, absent \in BOOLEAN :
            /\ word = IF absent THEN << >> ELSE w
            /\ label = IF absent THEN None ELSE LabelOf(w, c, l, r)

\* one call of priority_rank(label)
Classify ==
    /\ rank_out = -1
    /\ rank_out' = priority_rank(label)
    /\ UNCHANGED <<word, label, not_classifier>>

NextClassifier == Classify

SpecClassifier == InitClassifier /\ [][NextClassifier]_vars

\* ------------------------------------------------------------------------
\* A PriorityQueue driven by a caller, enqueues and dequeues interleaved
\* ------------------------------------------------------------------------
InitQueue == Init

\* pq.enqueue(item): any priority, any due time, in any order
Enqueue ==
    /\ enq_count < MaxQueue
    /\ \E prio \in ItemPriorities, m \in TimesOfDay :
         _queues' = enqueue(_queues,
                            QueueItem(enq_count + 1, Str(<<"p">>), prio,
                                      DateStr(1), TimeStr(m), DateTime(1, TRUE)))
    /\ enq_count' = enq_count + 1
    /\ op' = "enqueue"
    /\ UNCHANGED <<returned, not_queue>>

\* pq.dequeue()
Dequeue ==
    /\ LET r == dequeue(_queues)
       IN  /\ returned' = r.item
           /\ _queues' = r.pq
    /\ op' = "dequeue"
    /\ UNCHANGED <<enq_count, not_queue>>

\* a peek that takes the record out, as dequeue does
Peek_Removes ==
    /\ returned' = peek(_queues)
    /\ _queues' = dequeue(_queues).pq
    /\ op' = "peek"
    /\ UNCHANGED <<enq_count, not_queue>>

\* pq.peek()
Peek ==
    /\ returned' = peek(_queues)
    /\ op' = "peek"
    /\ UNCHANGED <<_queues, enq_count, not_queue>>

NextQueue == Enqueue \/ Dequeue \/ Peek

SpecQueue == InitQueue /\ [][NextQueue]_vars

\* ------------------------------------------------------------------------
\* A PatientLinkedList driven by a caller, inserts and removals interleaved
\* ------------------------------------------------------------------------
\* appointment ids a caller inserts and removes; an id may be inserted twice
ListIds == {1, 2}

RECURSIVE DropFirst(_, _)
\* a sequence of row dicts less the first one of the given id
DropFirst(rows, appointment_id) ==
    IF rows = << >> THEN << >>
    ELSE IF Head(rows).id = appointment_id THEN Tail(rows)
    ELSE <<Head(rows)>> \o DropFirst(Tail(rows), appointment_id)

InitList == Init

\* patient_list.insert_from_appointment_dict(a); created_at numbers the rows
Insert ==
    /\ ins_count < MaxList
    /\ \E id \in ListIds, prio \in SnapPriorities :
         LET a == Row(id, prio, <<DateStr(1), TimeStr(1)>>,
                      IsoStr(ins_count + 1, TRUE))
         IN  /\ patient_list' = insert_from_appointment_dict(patient_list, a)
             /\ stored' = Append(stored, a)
             /\ list_op' = [kind |-> "insert", appointment_id |-> id,
                            ret |-> None]
    /\ ins_count' = ins_count + 1
    /\ UNCHANGED not_list

\* patient_list.remove_by_id(id)
Remove ==
    /\ \E id \in ListIds :
         LET r == remove_by_id(patient_list, id)
         IN  /\ patient_list' = r.list
             /\ stored' = DropFirst(stored, id)
             /\ list_op' = [kind |-> "remove", appointment_id |-> id,
                            ret |-> r.removed]
    /\ UNCHANGED <<ins_count, not_list>>

NextList == Insert \/ Remove

SpecList == InitList /\ [][NextList]_vars

\* ------------------------------------------------------------------------
\* The engine called again and again in one process. residue holds the
\* PatientLinkedList and the PriorityQueue the latest call built; a call
\* builds its own from nothing.
\* ------------------------------------------------------------------------
\* rows of the snapshots of repeated calls: one due time, any priority, a
\* created_at that is unparsable or timezone-aware
CallRowsAt(id) ==
    {Row(id, prio, <<DateStr(1), TimeStr(1)>>, created) :
        prio \in SnapPriorities,
        created \in {Junk, IsoStr(Combine(1, 1), TRUE)}}

\* patient_list = PatientLinkedList(): a new list, whatever earlier calls built
NewList(left) == PatientLinkedList

\* a queue kept at module level: the queue of the call before is loaded again
NewQueue_ModuleLevel(left) ==
    IF left.queue = None THEN PriorityQueue ELSE left.queue

\* pq = PriorityQueue(): a new queue, whatever earlier calls built
NewQueue(left) == PriorityQueue

InitCalls == Init

\* the caller adds one more row to the snapshot of its next call
RegisterCall ==
    /\ pc = "ready"
    /\ Len(appointments) < MaxCallLen
    /\ \E r \in CallRowsAt(Len(appointments) + 1) :
         appointments' = Append(appointments, r)
    /\ UNCHANGED <<pc, result, residue, not_calls>>

\* one call of get_optimized_queue_list(appointments), statement by statement
CallEngine ==
    /\ pc = "ready"
    /\ LET earlier        == IF residue.list = None THEN -1
                             ELSE Len(list_to_list(residue.list))
           list           == InsertAll(NewList(residue), appointments, 1)
           nodes          == list_to_list(list)
           enriched_items == EnrichAll(nodes, 1)
           sorted         == SortEnriched(enriched_items)
           pq             == LoadQueue(NewQueue(residue), sorted.items, 1)
       IN  IF sorted.raised
           THEN /\ pc' = "raised"
                /\ result' = << >>
                /\ residue' = [list |-> list, queue |-> None,
                               earlier |-> earlier]
           ELSE /\ pc' = "returned"
                /\ result' = DictsOf(pq_to_list(pq), 1)
                /\ residue' = [list |-> list, queue |-> pq,
                               earlier |-> earlier]
    /\ UNCHANGED <<appointments, not_calls>>

\* the caller turns to its next snapshot
NextSnapshot ==
    /\ pc \in {"returned", "raised"}
    /\ pc' = "ready"
    /\ appointments' = << >>
    /\ result' = << >>
    /\ UNCHANGED <<residue, not_calls>>

NextCalls == RegisterCall \/ CallEngine \/ NextSnapshot

SpecCalls == InitCalls /\ [][NextCalls]_vars

\* ------------------------------------------------------------------------
\* Two callers running get_optimized_queue_list at the same time, each on
\* its own snapshot. A caller's local variables are its own; the lists and
\* queues are objects of the process, reached through the address a caller
\* holds. The statements of the two calls interleave in any order.
\* ------------------------------------------------------------------------
Callers == {1, 2}

\* (priority, created_at) of the rows of concurrent callers: two ranks, and
\* within one rank a created_at that is unparsable or timezone-aware
ThreadRows ==
    {<<Str(<<"U","R","G","E","N","T","!">>), Junk>>,
     <<Str(<<"U","R","G","E","N","T","!">>), IsoStr(Combine(1, 1), TRUE)>>,
     <<Str(<<" ","C","r","i","t","i","c","a","l">>), IsoStr(Combine(1, 1), TRUE)>>}

\* the snapshots of n rows, ids being the row positions
SnapshotsOfLen(n) ==
    {[i \in 1..n |-> Row(i, f[i][1], <<DateStr(1), TimeStr(1)>>, f[i][2])] :
        f \in [1..n -> ThreadRows]}

ThreadSnapshots == UNION {SnapshotsOfLen(n) : n \in 0..MaxThreadLen}

\* PatientLinkedList(): the address of a new object, one per call
AllocList(t) == t

\* one queue object for the whole process (self._queues as a class
\* attribute): every PriorityQueue() reaches the same lanes
AllocQueue_Shared(t) == 1

\* PriorityQueue(): the address of a new object, one per call
AllocQueue(t) == t

InitThreads ==
    /\ DrainIdle /\ LoadIdle /\ DbIdle
    /\ EngineIdle /\ ClassifierIdle /\ QueueIdle /\ ListIdle /\ NoResidue
    /\ AppIdle
    /\ lists = [a \in Callers |-> PatientLinkedList]
    /\ queues = [a \in Callers |-> PriorityQueue]
    /\ \E s1 \in ThreadSnapshots, s2 \in ThreadSnapshots :
         callers = [t \in Callers |->
                      [appointments   |-> IF t = 1 THEN s1 ELSE s2,
                       pc             |-> "ingest",
                       patient_list   |-> NoAddr,
                       nodes          |-> << >>,
                       enriched_items |-> << >>,
                       pq             |-> NoAddr,
                       result         |-> << >>,
                       met            |-> FALSE]]

\* the other caller is in the middle of its call
Meets(t) ==
    \E u \in Callers \ {t} : callers[u].pc \notin {"ingest", "returned", "raised"}

\* caller t moves on to position p
Moved(t, p) == [callers[t] EXCEPT !.pc = p, !.met = @ \/ Meets(t)]

\* patient_list = PatientLinkedList(); for a in appointments: insert
Ingest(t) ==
    /\ callers[t].pc = "ingest"
    /\ LET addr == AllocList(t)
       IN  /\ lists' = [lists EXCEPT
                          ![addr] = InsertAll(@, callers[t].appointments, 1)]
           /\ callers' = [callers EXCEPT
                            ![t] = [Moved(t, "traverse") EXCEPT !.patient_list = addr]]
    /\ UNCHANGED <<queues, not_threads>>

\* nodes = patient_list.to_list()
TraverseList(t) ==
    /\ callers[t].pc = "traverse"
    /\ callers' = [callers EXCEPT
                     ![t] = [Moved(t, "keys") EXCEPT
                               !.nodes = list_to_list(lists[callers[t].patient_list])]]
    /\ UNCHANGED <<lists, queues, not_threads>>

\* for node in nodes: enriched_items.append((rank, appt_dt, created, node))
ComputeKeys(t) ==
    /\ callers[t].pc = "keys"
    /\ callers' = [callers EXCEPT
                     ![t] = [Moved(t, "sort") EXCEPT
                               !.enriched_items = EnrichAll(callers[t].nodes, 1)]]
    /\ UNCHANGED <<lists, queues, not_threads>>

\* enriched_items.sort(key=...): the call ends here when a comparison raises
SortKeys(t) ==
    /\ callers[t].pc = "sort"
    /\ LET sorted == SortEnriched(callers[t].enriched_items)
       IN  callers' = [callers EXCEPT
                         ![t] = IF sorted.raised
                                THEN Moved(t, "raised")
                                ELSE [Moved(t, "enqueue") EXCEPT
                                        !.enriched_items = sorted.items]]
    /\ UNCHANGED <<lists, queues, not_threads>>

\* pq = PriorityQueue(); for ... in enriched_items: pq.enqueue(...)
EnqueueAll(t) ==
    /\ callers[t].pc = "enqueue"
    /\ LET addr == AllocQueue(t)
       IN  /\ queues' = [queues EXCEPT
                           ![addr] = LoadQueue(@, callers[t].enriched_items, 1)]
           /\ callers' = [callers EXCEPT
                            ![t] = [Moved(t, "flatten") EXCEPT !.pq = addr]]
    /\ UNCHANGED <<lists, not_threads>>

\* return [x.to_dict() for x in pq.to_list()]
Flatten(t) ==
    /\ callers[t].pc = "flatten"
    /\ callers' = [callers EXCEPT
                     ![t] = [Moved(t, "returned") EXCEPT
                               !.result = DictsOf(pq_to_list(queues[callers[t].pq]), 1)]]
    /\ UNCHANGED <<lists, queues, not_threads>>

NextThreads ==
    \E t \in Callers :
        \/ Ingest(t)
        \/ TraverseList(t)
        \/ ComputeKeys(t)
        \/ SortKeys(t)
        \/ EnqueueAll(t)
        \/ Flatten(t)

SpecThreads == InitThreads /\ [][NextThreads]_vars

\* ------------------------------------------------------------------------
\* app.py: the appointments table, register_patient and doctor_dashboard
\* ------------------------------------------------------------------------
Doctors == {1, 2}

\* signup: INSERT INTO users (email, password, role, full_name); the row's
\* doctor_id column is left NULL. A role other than doctor is receptionist.
signup(email, role) ==
    [email     |-> email,
     role      |-> IF role = "doctor" THEN "doctor" ELSE "receptionist",
     doctor_id |-> NULL]

\* login: the session of the users row found for the email
login(row) == [role |-> row.role, doctor_id |-> row.doctor_id]

\* users rows of role doctor: rows linked to a doctor (as init_db links its
\* doctor account to doctor 1), and a row made by signup
DoctorAccounts ==
    {[email |-> "d", role |-> "doctor", doctor_id |-> d] : d \in Doctors}
        \cup {signup("s", "doctor")}

\* session["doctor_id"] of a doctor account: a doctor, or None for an
\* account made by signup
SessionDoctors == {login(u).doctor_id : u \in DoctorAccounts}

\* the dates a form may carry: a date, or text that is not one
FormDates == {DateStr(1), Str(<<"x">>)}

RECURSIVE Select_AnyStatus(_, _)
\* the SELECT without `AND status = 'scheduled'`
Select_AnyStatus(rows, doctor_id) ==
    IF rows = << >> THEN << >>
    ELSE IF Head(rows).doctor_id = doctor_id
    THEN <<Head(rows)>> \o Select_AnyStatus(Tail(rows), doctor_id)
    ELSE Select_AnyStatus(Tail(rows), doctor_id)

RECURSIVE Select(_, _)
\* SELECT ... WHERE doctor_id = ? AND status = 'scheduled' ORDER BY id
Select(rows, doctor_id) ==
    IF rows = << >> THEN << >>
    ELSE IF Head(rows).doctor_id = doctor_id /\ Head(rows).status = "scheduled"
    THEN <<Head(rows)>> \o Select(Tail(rows), doctor_id)
    ELSE Select(Tail(rows), doctor_id)

RECURSIVE _appointment_rows_to_dicts(_)
_appointment_rows_to_dicts(rows) ==
    IF rows = << >> THEN << >>
    ELSE <<[id               |-> Head(rows).id,
            name             |-> Head(rows).patient_name,
            appointment_date |-> Head(rows).appointment_date,
            appointment_time |-> Head(rows).appointment_time,
            priority         |-> Head(rows).priority,
            status           |-> Head(rows).status,
            created_at       |-> Head(rows).created_at,
            doctor_id        |-> Head(rows).doctor_id]>>
         \o _appointment_rows_to_dicts(Tail(rows))

\* doctor_id = session.get("doctor_id") or 1
ServedDoctor(session_doctor) ==
    IF session_doctor = NULL THEN 1 ELSE session_doctor

\* the doctor_ids the dashboard can come to serve
ServedDoctors == {ServedDoctor(d) : d \in SessionDoctors}

\* raw = _appointment_rows_to_dicts(rows) for the rows of the SELECT
Snapshot(doctor_id) == _appointment_rows_to_dicts(Select(table, doctor_id))

\* UPDATE appointments SET status = 'completed' WHERE id = ? AND doctor_id = ?
UpdateStatus(rows, aid, doctor_id) ==
    IF aid \in DOMAIN rows /\ rows[aid].doctor_id = doctor_id
    THEN [rows EXCEPT ![aid].status = "completed"]
    ELSE rows

\* UPDATE appointments SET appointment_date = ?, appointment_time = ?
\* WHERE id = ? AND doctor_id = ?
UpdateDate(rows, aid, doctor_id, new_date, new_time) ==
    IF aid \in DOMAIN rows /\ rows[aid].doctor_id = doctor_id
    THEN [rows EXCEPT ![aid].appointment_date = new_date,
                      ![aid].appointment_time = new_time]
    ELSE rows

InitApp == Init

\* POST /register-patient with name, date and time filled in: a scheduled
\* appointment for the doctor chosen, or for none (as the add form of
\* patient_dashboard writes it)
RegisterPatient ==
    /\ Len(table) < MaxAppts
    /\ \E doctor_id \in Doctors \cup {NULL} :
         table' = Append(table,
                         [id               |-> Len(table) + 1,
                          patient_name     |-> Str(<<"p">>),
                          appointment_date |-> DateStr(1),
                          appointment_time |-> TimeStr(1),
                          priority         |-> Str(normal),
                          doctor_id        |-> doctor_id,
                          status           |-> "scheduled",
                          created_at       |-> IsoStr(Len(table) + 1, TRUE)])
    /\ req' = [handler |-> "register_patient", action |-> "none",
               doctor_id |-> NULL, session_doctor |-> NULL]
    /\ UNCHANGED <<raw, not_app>>

\* GET /doctor-dashboard: the snapshot is passed to the engine and the
\* outcome rendered; nothing is written
ViewQueue ==
    /\ \E session_doctor \in SessionDoctors, doctor_id \in ServedDoctors :
         /\ doctor_id = ServedDoctor(session_doctor)
         /\ raw' = Snapshot(doctor_id)
         /\ req' = [handler |-> "doctor_dashboard", action |-> "view",
                    doctor_id |-> doctor_id,
                    session_doctor |-> session_doctor]
    /\ UNCHANGED <<table, not_app>>

\* POST /doctor-dashboard, action=complete: the queue is computed first, and
\* the update is reached only when that call returned
Complete ==
    /\ \E session_doctor \in SessionDoctors, doctor_id \in ServedDoctors :
         /\ doctor_id = ServedDoctor(session_doctor)
         /\ raw' = Snapshot(doctor_id)
         /\ req' = [handler |-> "doctor_dashboard", action |-> "complete",
                    doctor_id |-> doctor_id,
                    session_doctor |-> session_doctor]
         /\ IF get_optimized_queue_list(Snapshot(doctor_id)).raised
            THEN table' = table
            ELSE \E aid \in 1..MaxAppts :
                     table' = UpdateStatus(table, aid, doctor_id)
    /\ UNCHANGED not_app

\* POST /doctor-dashboard, action=reschedule, new_date and new_time filled in
Reschedule ==
    /\ \E session_doctor \in SessionDoctors, doctor_id \in ServedDoctors :
         /\ doctor_id = ServedDoctor(session_doctor)
         /\ raw' = Snapshot(doctor_id)
         /\ req' = [handler |-> "doctor_dashboard", action |-> "reschedule",
                    doctor_id |-> doctor_id,
                    session_doctor |-> session_doctor]
         /\ IF get_optimized_queue_list(Snapshot(doctor_id)).raised
            THEN table' = table
            ELSE \E aid \in 1..MaxAppts, new_date \in FormDates :
                     table' = UpdateDate(table, aid, doctor_id, new_date,
                                         TimeStr(1))
    /\ UNCHANGED not_app

NextApp == RegisterPatient \/ ViewQueue \/ Complete \/ Reschedule

SpecApp == InitApp /\ [][NextApp]_vars

\* ------------------------------------------------------------------------
\* One call of the engine followed statement by statement, its queue pq
\* being _queues
\* ------------------------------------------------------------------------
\* rows of three ranks: Critical, Emergency and an unrecognized label
LoadRowsAt(id) ==
    {Row(id, prio, appt, created) :
        prio \in SnapPriorities \cup {Str(emergency)},
        appt \in SnapAppointments, created \in SnapCreated}

InitLoad == Init

\* the caller adds one more row to the snapshot
LoadRegister ==
    /\ pc = "ready"
    /\ Len(appointments) < MaxLoadLen
    /\ \E r \in LoadRowsAt(Len(appointments) + 1) :
         appointments' = Append(appointments, r)
    /\ UNCHANGED <<pc, result, _queues, enriched, not_load>>

\* steps 1 to 4: the linked list, its traversal, the keys, the sort; then
\* pq = PriorityQueue()
SortStep ==
    /\ pc = "ready"
    /\ LET list         == InsertAll(PatientLinkedList, appointments, 1)
           nodes        == list_to_list(list)
           sorted       == SortEnriched(EnrichAll(nodes, 1))
       IN  IF sorted.raised
           THEN /\ pc' = "raised"
                /\ enriched' = << >>
           ELSE /\ pc' = "loading"
                /\ enriched' = sorted.items
    /\ _queues' = PriorityQueue
    /\ UNCHANGED <<appointments, result, not_load>>

\* one turn of the loading loop: pq.enqueue(build_queue_item(...)) for the
\* next entry of enriched_items
LoadStep ==
    /\ pc = "loading"
    /\ pq_len(_queues) < Len(enriched)
    /\ LET k == pq_len(_queues) + 1
       IN  _queues' = LoadQueue(_queues, SubSeq(enriched, k, k), 1)
    /\ UNCHANGED <<engine_vars, enriched, not_load>>

\* return [x.to_dict() for x in pq.to_list()]
ReturnStep ==
    /\ pc = "loading"
    /\ pq_len(_queues) = Len(enriched)
    /\ pc' = "returned"
    /\ result' = DictsOf(pq_to_list(_queues), 1)
    /\ UNCHANGED <<appointments, _queues, enriched, not_load>>

NextLoad == LoadRegister \/ SortStep \/ LoadStep \/ ReturnStep

SpecLoad == InitLoad /\ [][NextLoad]_vars

\* ------------------------------------------------------------------------
\* A PriorityQueue drained by its caller: dequeue called until it returns
\* None, nothing enqueued meanwhile
\* ------------------------------------------------------------------------
InitDrain == Init

\* the queue in ordinary use before the drain begins
QueueInUse ==
    /\ ~drain.on
    /\ NextQueue

\* the caller decides to drain the queue as it stands
DrainStart ==
    /\ ~drain.on
    /\ drain' = [on |-> TRUE, held |-> pq_to_list(_queues), out |-> << >>,
                 done |-> FALSE]
    /\ UNCHANGED <<queue_vars, not_drain>>

\* one more pq.dequeue() of the drain; the drain ends on None. No drain
\* makes more than len(pq) + 1 calls.
DrainStep ==
    /\ drain.on
    /\ ~drain.done
    /\ Len(drain.out) <= Len(drain.held)
    /\ LET r == dequeue(_queues)
       IN  /\ _queues' = r.pq
           /\ returned' = r.item
           /\ drain' = [drain EXCEPT !.out = Append(@, r.item),
                                     !.done = (r.item = None)]
    /\ op' = "dequeue"
    /\ UNCHANGED <<enq_count, not_drain>>

NextDrain == QueueInUse \/ DrainStart \/ DrainStep

\* a caller that drains keeps calling dequeue until it gets None
SpecDrain == InitDrain /\ [][NextDrain]_vars /\ WF_vars(DrainStep)

\* ------------------------------------------------------------------------
\* app.py: init_db on a database file that signup and register_patient
\* write to between runs
\* ------------------------------------------------------------------------
DoctorEmail == "fayerakena@doctor.gmail.com"

PatientEmail == "tamiratyisakor@gmail.com"

\* the emails signup forms carry: the two init_db preloads, and another
SignupEmails == {DoctorEmail, PatientEmail, "new@doc"}

\* the role field of a signup form
SignupRoles == {"doctor", "patient"}

\* the doctors init_db inserts into an empty doctors table
DoctorNames ==
    <<"Kena Fayera", "Daniel Dea", "Abdurahman Muktar", "Abel Yeshewalem",
      "Gersam Mussie", "Leulekal Nahusenay">>

\* the number of entries of the samples list
NumSamples == 8

\* the users table holds a row of this email (users.email is UNIQUE)
HasEmail(users, email) == \E i \in 1..Len(users) : users[i].email = email

\* INSERT OR IGNORE INTO users (email, password, role, full_name)
InsertOrIgnore(users, email, role) ==
    IF HasEmail(users, email) THEN users
    ELSE Append(users, [email |-> email, role |-> role, doctor_id |-> NULL])

\* UPDATE users SET doctor_id = 1 WHERE id = <the row of the doctor email>
LinkDoctor(users) ==
    [i \in 1..Len(users) |->
        IF users[i].email = DoctorEmail
        THEN [users[i] EXCEPT !.doctor_id = 1] ELSE users[i]]

\* init_db: [raised, db]. The CREATE TABLE statements take effect as they
\* run. The inserts and the update belong to one transaction, committed by
\* the conn.commit() at the end; with an empty appointments table the
\* samples loop evaluates timedelta(seconds*i), `seconds` is not defined,
\* and the NameError leaves init_db before the commit.
init_db(d) ==
    LET users   == LinkDoctor(InsertOrIgnore(
                       InsertOrIgnore(d.users, DoctorEmail, "doctor"),
                       PatientEmail, "patient"))
        doctors == IF d.doctors = 0 THEN Len(DoctorNames) ELSE d.doctors
    IN  IF d.appointments = 0
        THEN [raised |-> "NameError", db |-> [d EXCEPT !.tables = TRUE]]
        ELSE [raised |-> "none",
              db |-> [tables |-> TRUE, users |-> users, doctors |-> doctors,
                      appointments |-> d.appointments]]

InitInitDb == Init

\* python app.py: init_db() runs at start-up
InitDb ==
    /\ boot.runs < MaxRuns
    /\ LET r == init_db(db)
       IN  /\ db' = r.db
           /\ boot' = [runs    |-> boot.runs + 1,
                       outcome |-> IF r.raised = "none" THEN "completed"
                                   ELSE r.raised,
                       before  |-> db]
    /\ UNCHANGED not_initdb

\* POST /signup with email and password filled in; an email already taken
\* (IntegrityError) changes nothing
SignupUser ==
    /\ db.tables
    /\ \E email \in SignupEmails, role \in SignupRoles :
         /\ ~HasEmail(db.users, email)
         /\ db' = [db EXCEPT !.users = Append(@, signup(email, role))]
    /\ UNCHANGED <<boot, not_initdb>>

\* POST /register-patient: one more row in appointments
AddAppointment ==
    /\ db.tables
    /\ db.appointments < MaxAppts
    /\ db' = [db EXCEPT !.appointments = @ + 1]
    /\ UNCHANGED <<boot, not_initdb>>

NextInitDb == InitDb \/ SignupUser \/ AddAppointment

SpecInitDb == InitInitDb /\ [][NextInitDb]_vars

\* ------------------------------------------------------------------------
\* The composite key of a snapshot row, as the design states it
\* ------------------------------------------------------------------------
\* the snapshot row an output record came from (ids are row positions)
RowOf(o) == appointments[o.appointment_id]

RankOf(a) == priority_rank(a.priority)

CreatedOf(a) == _parse_created_at(a.created_at)

DueOf(a) ==
    _parse_appointment_datetime(a.appointment_date, a.appointment_time, CreatedOf(a))

\* the row's date or time is blank or does not parse
DueFellBack(a) ==
    ~fromisoformat_joined(StripField(a.appointment_date),
                          StripField(a.appointment_time)).ok

\* the row's created_at is absent or does not parse
CreatedFellBack(a) == ~fromisoformat(a.created_at).ok

\* instants that can be ordered: both naive or both aware
Comparable(d, e) == d.aware = e.aware

\* d strictly before e, d not after e
Before(d, e) == Comparable(d, e) /\ d.t < e.t

NotAfter(d, e) == Comparable(d, e) /\ d.t <= e.t

\* key(a) <= key(b), lexicographic on (rank, dueTimestamp, createdAt)
KeyLeq(a, b) ==
    \/ RankOf(a) < RankOf(b)
    \/ RankOf(a) = RankOf(b) /\ Before(DueOf(a), DueOf(b))
    \/ /\ RankOf(a) = RankOf(b)
       /\ DtEq(DueOf(a), DueOf(b))
       /\ NotAfter(CreatedOf(a), CreatedOf(b))

\* position of the record with this id in the returned list (0 if absent)
PosOf(id) ==
    IF \E i \in 1..Len(result) : result[i].appointment_id = id
    THEN CHOOSE i \in 1..Len(result) : result[i].appointment_id = id
    ELSE 0

Adjacent == {i \in 1..Len(result) : i < Len(result)}

\* ------------------------------------------------------------------------
\* C1  Whenever get_optimized_queue_list returns, the returned sequence is
\*     ascending in the key (rank, dueTimestamp, createdAt): each record's
\*     key is <= the key of the record after it, so with equal rank and due
\*     time the earlier createdAt comes first wherever the two rows stood in
\*     the snapshot.
\* ------------------------------------------------------------------------
C1_AscendingKey ==
    pc = "returned" =>
        \A i \in Adjacent : KeyLeq(RowOf(result[i]), RowOf(result[i + 1]))

\* a list was returned for a snapshot in which a row with a later createdAt
\* stands before a row of the same rank and due time with an earlier one
C1_Witness ==
    /\ pc = "returned"
    /\ \E i, j \in 1..Len(appointments) :
         /\ i < j
         /\ RankOf(appointments[i]) = RankOf(appointments[j])
         /\ DtEq(DueOf(appointments[i]), DueOf(appointments[j]))
         /\ Before(CreatedOf(appointments[j]), CreatedOf(appointments[i]))
         /\ PosOf(j) < PosOf(i)

\* ------------------------------------------------------------------------
\* C2  (as stated) For output-adjacent x before y: rank(x) <= rank(y); with
\*     equal ranks dueTimestamp(x) <= dueTimestamp(y); with equal due times
\*     too, x appeared no later than y in the snapshot.
\* ------------------------------------------------------------------------
C2_AsStated ==
    pc = "returned" =>
        \A i \in Adjacent :
            LET x == RowOf(result[i])
                y == RowOf(result[i + 1])
            IN  /\ RankOf(x) <= RankOf(y)
                /\ RankOf(x) = RankOf(y) => NotAfter(DueOf(x), DueOf(y))
                /\ (RankOf(x) = RankOf(y) /\ DtEq(DueOf(x), DueOf(y))) => x.id <= y.id

\* C2  (amended) For output-adjacent x before y: rank(x) <= rank(y); with
\*     equal ranks dueTimestamp(x) <= dueTimestamp(y); with equal due times
\*     too, createdAt(x) <= createdAt(y); and with equal createdAt as well,
\*     x appeared no later than y in the snapshot.
C2_TotalOrder ==
    pc = "returned" =>
        \A i \in Adjacent :
            LET x == RowOf(result[i])
                y == RowOf(result[i + 1])
            IN  /\ RankOf(x) <= RankOf(y)
                /\ RankOf(x) = RankOf(y) => NotAfter(DueOf(x), DueOf(y))
                /\ (RankOf(x) = RankOf(y) /\ DtEq(DueOf(x), DueOf(y)))
                       => NotAfter(CreatedOf(x), CreatedOf(y))
                /\ (/\ RankOf(x) = RankOf(y)
                    /\ DtEq(DueOf(x), DueOf(y))
                    /\ DtEq(CreatedOf(x), CreatedOf(y))) => x.id <= y.id

\* the returned list holds, side by side, two records with the same whole
\* key and, elsewhere or there, a pair ordered by createdAt against the
\* snapshot order
C2_Witness ==
    /\ pc = "returned"
    /\ \E i \in Adjacent :
         LET x == RowOf(result[i])
             y == RowOf(result[i + 1])
         IN  /\ RankOf(x) = RankOf(y)
             /\ DtEq(DueOf(x), DueOf(y))
             /\ DtEq(CreatedOf(x), CreatedOf(y))
             /\ x.id < y.id
    /\ \E i \in Adjacent :
         LET x == RowOf(result[i])
             y == RowOf(result[i + 1])
         IN  /\ RankOf(x) = RankOf(y)
             /\ DtEq(DueOf(x), DueOf(y))
             /\ Before(CreatedOf(x), CreatedOf(y))
             /\ x.id > y.id

\* ------------------------------------------------------------------------
\* C3  Level precedence: in the returned sequence every record of rank r
\*     precedes every record of rank r' whenever r < r'.
\* ------------------------------------------------------------------------
C3_LevelPrecedence ==
    pc = "returned" =>
        \A i, j \in 1..Len(result) :
            RankOf(RowOf(result[i])) < RankOf(RowOf(result[j])) => i < j

\* a list was returned for a snapshot whose rows arrive with a less urgent
\* row before a more urgent one
C3_Witness ==
    /\ pc = "returned"
    /\ \E i, j \in 1..Len(appointments) :
         i < j /\ RankOf(appointments[i]) > RankOf(appointments[j])

\* ------------------------------------------------------------------------
\* C4  No data loss: the returned sequence has the length of the snapshot
\*     and every snapshot id appears in it exactly once.
\* ------------------------------------------------------------------------
C4_Permutation ==
    pc = "returned" =>
        /\ Len(result) = Len(appointments)
        /\ \A k \in 1..Len(appointments) :
             Cardinality({i \in 1..Len(result) :
                            result[i].appointment_id = appointments[k].id}) = 1

\* a full-length snapshot came back in an order other than the one given
C4_Witness ==
    /\ pc = "returned"
    /\ Len(appointments) = MaxLen
    /\ \E i \in 1..Len(result) : result[i].appointment_id # i

\* ------------------------------------------------------------------------
\* C5  Stability: two rows with identical priority, date, time and creation
\*     timestamp keep their snapshot order in the returned sequence.
\* ------------------------------------------------------------------------
SameFields(a, b) ==
    /\ a.priority = b.priority
    /\ a.appointment_date = b.appointment_date
    /\ a.appointment_time = b.appointment_time
    /\ a.created_at = b.created_at

C5_Stability ==
    pc = "returned" =>
        \A i, j \in 1..Len(appointments) :
            (i < j /\ SameFields(appointments[i], appointments[j]))
                => PosOf(i) < PosOf(j)

\* a list was returned for a snapshot holding two identical rows with a
\* third row between them
C5_Witness ==
    /\ pc = "returned"
    /\ \E i, j \in 1..Len(appointments) :
         /\ i + 1 < j
         /\ SameFields(appointments[i], appointments[j])
         /\ ~SameFields(appointments[i], appointments[i + 1])

\* ------------------------------------------------------------------------
\* C6  (as stated) get_optimized_queue_list never raises: whatever the
\*     priority labels, the date/time values and the created_at values of
\*     the snapshot (absent, unparsable, naive or aware, mixed), the call
\*     returns a result.
\* ------------------------------------------------------------------------
C6_NeverRaises == pc # "raised"

\* ------------------------------------------------------------------------
\* C8  (as stated) A row whose date or time is blank or unparsable gets
\*     dueTimestamp = createdAt, and the call places it among its same-rank
\*     peers where comparing that createdAt with the peers' due times puts
\*     it. Stated for snapshots in which every created_at parses.
\* ------------------------------------------------------------------------
C8_DueFallbackPlaced ==
    (/\ pc # "ready"
     /\ \A k \in 1..Len(appointments) : ~CreatedFellBack(appointments[k])
     /\ \E k \in 1..Len(appointments) : DueFellBack(appointments[k]))
    => /\ pc = "returned"
       /\ \A k, j \in 1..Len(appointments) :
            LET a == appointments[k]
                b == appointments[j]
            IN  (DueFellBack(a) /\ k # j /\ RankOf(a) = RankOf(b))
                => /\ DueOf(a) = CreatedOf(a)
                   /\ Before(CreatedOf(a), DueOf(b)) => PosOf(k) < PosOf(j)
                   /\ Before(DueOf(b), CreatedOf(a)) => PosOf(j) < PosOf(k)

\* ------------------------------------------------------------------------
\* C9  (as stated) A row whose created_at is unparsable or absent gets
\*     createdAt = the minimum timestamp, sorts before every row of the same
\*     rank and due time that has a valid created_at, and no failure occurs.
\*     Stated for snapshots in which every date and time parses.
\* ------------------------------------------------------------------------
C9_CreatedFallbackFirst ==
    (/\ pc # "ready"
     /\ \A k \in 1..Len(appointments) : ~DueFellBack(appointments[k])
     /\ \E k \in 1..Len(appointments) : CreatedFellBack(appointments[k]))
    => /\ pc = "returned"
       /\ \A k, j \in 1..Len(appointments) :
            LET a == appointments[k]
                b == appointments[j]
            IN  (/\ CreatedFellBack(a) /\ ~CreatedFellBack(b)
                 /\ RankOf(a) = RankOf(b) /\ DtEq(DueOf(a), DueOf(b)))
                => /\ CreatedOf(a) = datetime_min
                   /\ PosOf(k) < PosOf(j)

\* ------------------------------------------------------------------------
\* C7  priority_rank returns a rank in 0..3 for every label: the rank of the
\*     word the label spells once lower-cased and trimmed (critical 0,
\*     emergency 1, accident 2, normal 3) and 3 for anything else, the empty
\*     string and None included.
\* ------------------------------------------------------------------------
ExpectedRank(w) ==
    CASE w = critical  -> 0
      [] w = emergency -> 1
      [] w = accident  -> 2
      [] OTHER         -> 3

C7_RankTotal ==
    rank_out # -1 => (rank_out \in 0..3 /\ rank_out = ExpectedRank(word))

\* a label that is not written exactly as in PRIORITY_ORDER was ranked 1
C7_Witness ==
    /\ rank_out = 1
    /\ label.tag = "str"
    /\ label.s # emergency

\* ------------------------------------------------------------------------
\* C10 Strict level precedence of dequeue: right after a dequeue that
\*     returned a record of rank r, no lane holds a record of rank lower
\*     than r (the lanes now hold what they held before, less that record).
\* ------------------------------------------------------------------------
LaneItems == {<<k, i>> : k \in 1..4, i \in 1..MaxQueue}

Held == {ki \in LaneItems : ki[2] <= Len(_queues[ki[1]])}

ItemAt(ki) == _queues[ki[1]][ki[2]]

C10_DequeuePrecedence ==
    (op = "dequeue" /\ returned # None) =>
        \A ki \in Held :
            priority_rank(ItemAt(ki).priority) >= priority_rank(returned.priority)

\* a dequeue returned a record ahead of a less urgent one that was enqueued
\* before it, while a lane holds records in decreasing due-time order
C10_Witness ==
    /\ op = "dequeue"
    /\ returned # None
    /\ \E ki \in Held :
         /\ ItemAt(ki).appointment_id < returned.appointment_id
         /\ priority_rank(ItemAt(ki).priority) > priority_rank(returned.priority)
    /\ \E ki, kj \in Held :
         /\ ki[1] = kj[1]
         /\ ki[2] < kj[2]
         /\ ItemAt(ki).appointment_time.m > ItemAt(kj).appointment_time.m

\* ------------------------------------------------------------------------
\* C11 FIFO within a lane: whatever the interleaving of enqueues and
\*     dequeues, every lane holds its records in the order they were
\*     enqueued, and right after a dequeue returned a record, every record
\*     of the same rank still held was enqueued after it. So of two records
\*     of one rank the one enqueued first is dequeued first.
\* ------------------------------------------------------------------------
SameLaneInOrder ==
    \A ki, kj \in Held :
        (ki[1] = kj[1] /\ ki[2] < kj[2]) =>
            ItemAt(ki).appointment_id < ItemAt(kj).appointment_id

C11_LaneFifo ==
    /\ SameLaneInOrder
    /\ (op = "dequeue" /\ returned # None) =>
          \A ki \in Held :
              priority_rank(ItemAt(ki).priority) = priority_rank(returned.priority)
                  => ItemAt(ki).appointment_id > returned.appointment_id

\* a dequeue returned a record while a later record of the same rank is
\* still held, and a record enqueued before both waits in another lane
C11_Witness ==
    /\ op = "dequeue"
    /\ returned # None
    /\ \E ki \in Held :
         priority_rank(ItemAt(ki).priority) = priority_rank(returned.priority)
    /\ \E ki \in Held :
         /\ ItemAt(ki).appointment_id < returned.appointment_id
         /\ priority_rank(ItemAt(ki).priority) # priority_rank(returned.priority)

NodeData(node) == [node EXCEPT !.next = NoAddr]

C13_TraversalIsStored ==
    LET nodes == list_to_list(patient_list)
    IN  /\ Len(nodes) = Len(stored)
        /\ \A i \in 1..Len(nodes) : NodeData(nodes[i]) = PatientNode(stored[i])

\* an insert made after a removal, into a list that holds an id twice
C13_Witness ==
    /\ list_op.kind = "insert"
    /\ Len(stored) < ins_count
    /\ \E i, j \in 1..Len(stored) : i < j /\ stored[i].id = stored[j].id

\* ------------------------------------------------------------------------
\* C14 remove_by_id: when a node has the id, the call returns True and the
\*     list is what it was less the first such node, the others in the same
\*     order; when none has it, the call returns False and the list is
\*     unchanged.
\* ------------------------------------------------------------------------
RECURSIVE DataOf(_)
DataOf(nodes) ==
    IF nodes = << >> THEN << >>
    ELSE <<NodeData(Head(nodes))>> \o DataOf(Tail(nodes))

RECURSIVE LessFirst(_, _)
\* a sequence of nodes less the first one of the given id
LessFirst(nodes, appointment_id) ==
    IF nodes = << >> THEN << >>
    ELSE IF Head(nodes).appointment_id = appointment_id THEN Tail(nodes)
    ELSE <<Head(nodes)>> \o LessFirst(Tail(nodes), appointment_id)

C14_RemoveFirstMatch ==
    [][list_op'.kind = "remove" =>
          LET before == DataOf(list_to_list(patient_list))
              after  == DataOf(list_to_list(patient_list'))
              id     == list_op'.appointment_id
          IN  IF \E i \in 1..Len(before) : before[i].appointment_id = id
              THEN list_op'.ret = TRUE /\ after = LessFirst(before, id)
              ELSE list_op'.ret = FALSE /\ patient_list' = patient_list]_vars

\* a removal from the middle of the list that left a later node of the same
\* id in place
C14_Witness ==
    /\ list_op.kind = "remove"
    /\ list_op.ret = TRUE
    /\ \E i, j \in 1..Len(stored) :
         /\ i < j
         /\ stored[i].id # list_op.appointment_id
         /\ stored[j].id = list_op.appointment_id
         /\ stored[i].created_at.t + 1 < stored[j].created_at.t

\* ------------------------------------------------------------------------
\* C15 Idempotence under pre-sorted input: a call on a snapshot whose rows
\*     already ascend by (rank, dueTimestamp, createdAt) returns, and
\*     returns the records in the order of the snapshot.
\* ------------------------------------------------------------------------
SnapshotAscending ==
    \A i \in 1..Len(appointments) :
        i < Len(appointments) => KeyLeq(appointments[i], appointments[i + 1])

C15_PresortedKept ==
    (pc # "ready" /\ SnapshotAscending) =>
        /\ pc = "returned"
        /\ Len(result) = Len(appointments)
        /\ \A i \in 1..Len(result) : result[i].appointment_id = i

\* a full ascending snapshot with two ranks, and two rows of one rank whose
\* keys differ
C15_Witness ==
    /\ pc = "returned"
    /\ SnapshotAscending
    /\ Len(appointments) = MaxLen
    /\ \E i, j \in 1..Len(appointments) :
         RankOf(appointments[i]) # RankOf(appointments[j])
    /\ \E i, j \in 1..Len(appointments) :
         /\ i < j
         /\ RankOf(appointments[i]) = RankOf(appointments[j])
         /\ ~KeyLeq(appointments[j], appointments[i])

C17_InputUntouched ==
    [][(pc = "ready" /\ pc' = "returned") => appointments' = appointments]_vars

\* a call returned the rows in another order and with normalised priority
\* labels, so the records it worked on differ from the rows it was given
C17_Witness ==
    /\ pc = "returned"
    /\ Len(result) >= 2
    /\ result[1].appointment_id # appointments[1].id
    /\ result[1].priority # RowOf(result[1]).priority

\* ------------------------------------------------------------------------
\* C18 Statelessness and determinism: whatever calls were made before, with
\*     whatever snapshots, a call with snapshot S ends as a first call with
\*     S ends: it raises if and only if the first call raises, and returns
\*     the same sequence.
\* ------------------------------------------------------------------------
C18_SameAsFirstCall ==
    pc # "ready" =>
        LET first == get_optimized_queue_list(appointments)
        IN  /\ (pc = "raised") = first.raised
            /\ result = first.value

\* a call returned a snapshot of two ranks right after a call on a full
\* snapshot, which had built its own list and queue
C18_Witness ==
    /\ pc = "returned"
    /\ residue.earlier = MaxCallLen
    /\ \E i, j \in 1..Len(result) :
         priority_rank(result[i].priority) # priority_rank(result[j].priority)

\* ------------------------------------------------------------------------
\* C19 Concurrent invocation safety: two callers run the engine at the same
\*     time, each on its own snapshot; under every interleaving of their
\*     steps, a call that has ended has ended as it ends when run alone: it
\*     raised if and only if the lone call raises, and returned the same
\*     sequence.
\* ------------------------------------------------------------------------
C19_AsWhenAlone ==
    \A t \in Callers :
        callers[t].pc \in {"returned", "raised"} =>
            LET alone == get_optimized_queue_list(callers[t].appointments)
            IN  /\ (callers[t].pc = "raised") = alone.raised
                /\ callers[t].result = alone.value

\* both calls returned full, different snapshots, and each took a step
\* while the other was in the middle of its call
C19_Witness ==
    /\ \A t \in Callers :
         /\ callers[t].pc = "returned"
         /\ callers[t].met
         /\ Len(callers[t].result) = MaxThreadLen
    /\ callers[1].appointments # callers[2].appointments

\* ------------------------------------------------------------------------
\* C20 Across register, complete and reschedule actions, the snapshot a
\*     doctor_dashboard request passes to the engine holds only appointments
\*     that were scheduled, and of the doctor_id the dashboard serves, when
\*     the request came in; and no action makes a completed appointment
\*     scheduled again. So an appointment marked completed is in no snapshot
\*     computed afterwards.
\* ------------------------------------------------------------------------
C20_OnlyScheduledOfDoctor ==
    [][/\ \A id \in 1..Len(table) :
            table[id].status = "completed" => table'[id].status = "completed"
       /\ req'.handler = "doctor_dashboard" =>
            \A i \in 1..Len(raw') :
                /\ raw'[i].status = "scheduled"
                /\ raw'[i].doctor_id = req'.doctor_id
                /\ table[raw'[i].id].status = "scheduled"
                /\ table[raw'[i].id].doctor_id = req'.doctor_id]_vars

\* a view of a doctor's queue computed while the table held a completed
\* appointment of that doctor and a scheduled one of another doctor, the
\* queue holding a rescheduled appointment
C20_Witness ==
    /\ req.handler = "doctor_dashboard"
    /\ req.action = "view"
    /\ \E id \in 1..Len(table) :
         table[id].status = "completed" /\ table[id].doctor_id = req.doctor_id
    /\ \E id \in 1..Len(table) :
         /\ table[id].status = "scheduled"
         /\ table[id].doctor_id \notin {req.doctor_id, NULL}
    /\ \E i \in 1..Len(raw) : raw[i].appointment_date # DateStr(1)

\* ------------------------------------------------------------------------
\* C21 An empty snapshot is not an error: get_optimized_queue_list([])
\*     returns the empty sequence without raising.
\* ------------------------------------------------------------------------
C21_EmptyInEmptyOut ==
    (pc # "ready" /\ appointments = << >>) => (pc = "returned" /\ result = << >>)

\* the call was made on the empty snapshot and came back
C21_Witness == pc = "returned" /\ Len(appointments) = 0 /\ Len(result) = 0

\* ------------------------------------------------------------------------
\* Drain equivalence: in every reachable state of a PriorityQueue, to_list
\* returns the sequence that dequeue, called until it returns None, would
\* return.
\* ------------------------------------------------------------------------
RECURSIVE DrainAll(_)
\* the records dequeue returns, in order, until it returns None
DrainAll(pq) ==
    LET r == dequeue(pq)
    IN  IF r.item = None THEN << >> ELSE <<r.item>> \o DrainAll(r.pq)

\* C22 to_list of the queue equals the drain of the queue by dequeue
C22_ToListIsDrain == pq_to_list(_queues) = DrainAll(_queues)

\* a full queue with records in the last lane and in an earlier one, the
\* one in the last lane enqueued first
C22_Witness ==
    /\ pq_len(_queues) = MaxQueue
    /\ Len(_queues[4]) > 0
    /\ \E ki \in Held :
         /\ ki[1] < 4
         /\ ItemAt(ki).appointment_id > _queues[4][1].appointment_id

\* ------------------------------------------------------------------------
\* peek against dequeue
\* ------------------------------------------------------------------------
\* C26 peek leaves every lane as it was and returns the record that a
\*     dequeue made right after it returns (None on an empty queue); a
\*     dequeue step that follows a peek step returns what the peek returned.
C26_PeekReadOnlyAgrees ==
    [][ /\ op' = "peek" =>
             /\ _queues' = _queues
             /\ returned' = dequeue(_queues').item
        /\ (op = "peek" /\ op' = "dequeue") => returned' = returned ]_vars

\* a peek answered with a record of a later lane, while two records are held
C26_Witness ==
    /\ op = "peek"
    /\ returned # None
    /\ pq_len(_queues) >= 2
    /\ Len(_queues[1]) = 0
    /\ returned = dequeue(_queues).item

\* ------------------------------------------------------------------------
\* Draining the queue
\* ------------------------------------------------------------------------
\* the record is among the first n values the drain returned, once
ReturnedOnce(item, n) ==
    Cardinality({j \in 1..n : j <= Len(drain.out) /\ drain.out[j] = item}) = 1

\* C24 A drain of a queue of n records, nothing being enqueued meanwhile,
\*     ends: the first n calls of dequeue return the n records, each one
\*     once, the call after them returns None and the queue is empty; so
\*     every record held when the drain began is eventually dequeued.
C24_DrainTerminates ==
    /\ [](drain.on =>
            \A j \in 1..Len(drain.out) :
                (drain.out[j] = None) <=> (j = Len(drain.held) + 1))
    /\ [](drain.done =>
            /\ Len(drain.out) = Len(drain.held) + 1
            /\ \A i \in 1..Len(drain.held) :
                   ReturnedOnce(drain.held[i], Len(drain.held))
            /\ is_empty(_queues))
    /\ (drain.on ~> drain.done)

\* a drain of a full queue has ended, of records of two lanes, one of the
\* records having come out ahead of a record enqueued before it
C24_Witness ==
    /\ drain.done
    /\ Len(drain.held) = MaxQueue
    /\ \E i, j \in 1..MaxQueue :
         /\ i < j
         /\ drain.out[i].appointment_id > drain.out[j].appointment_id

\* ------------------------------------------------------------------------
\* The lanes the engine fills
\* ------------------------------------------------------------------------
\* the entry of enriched_items a queued record was built from
EntryOf(item) ==
    enriched[CHOOSE k \in 1..Len(enriched) :
                enriched[k].node.appointment_id = item.appointment_id]

\* (dueTimestamp, createdAt) of x is not after that of y
DueCreatedLeq(x, y) ==
    \/ Before(x.appt_dt, y.appt_dt)
    \/ DtEq(x.appt_dt, y.appt_dt) /\ NotAfter(x.created, y.created)

\* the loading loop has ended
Loaded == pc \in {"loading", "returned"} /\ pq_len(_queues) = Len(enriched)

\* C23 When the engine has loaded its queue (step 5), the records of every
\*     lane stand in ascending (dueTimestamp, createdAt) order.
C23_LanesAscending ==
    Loaded =>
        \A ki, kj \in Held :
            (ki[1] = kj[1] /\ ki[2] < kj[2]) =>
                DueCreatedLeq(EntryOf(ItemAt(ki)), EntryOf(ItemAt(kj)))

\* a returned call whose queue holds, in one lane, a record due strictly
\* earlier ahead of a record that the snapshot lists before it
C23_Witness ==
    /\ pc = "returned"
    /\ \E ki, kj \in Held :
         /\ ki[1] = kj[1] /\ ki[2] < kj[2]
         /\ ItemAt(ki).appointment_id > ItemAt(kj).appointment_id
         /\ Before(EntryOf(ItemAt(ki)).appt_dt, EntryOf(ItemAt(kj)).appt_dt)

RECURSIVE IdsOfItems(_, _)
\* the appointment ids of a sequence of queued records
IdsOfItems(items, k) ==
    IF k > Len(items) THEN << >>
    ELSE <<items[k].appointment_id>> \o IdsOfItems(items, k + 1)

RECURSIVE IdsOfEntries(_, _)
\* the appointment ids of a sequence of enriched_items entries
IdsOfEntries(entries, k) ==
    IF k > Len(entries) THEN << >>
    ELSE <<entries[k].node.appointment_id>> \o IdsOfEntries(entries, k + 1)

\* C25 Every record held in lane i (0-based) has priority_rank i; in the
\*     engine that lane is the rank of the record's sort key; and the lanes
\*     read end to end, once loaded, are the sorted enriched_items in order.
C25_LanePlacement ==
    /\ \A ki \in Held : priority_rank(ItemAt(ki).priority) = ki[1] - 1
    /\ pc \in {"loading", "returned"} =>
          \A ki \in Held : EntryOf(ItemAt(ki)).rank = ki[1] - 1
    /\ Loaded => IdsOfItems(pq_to_list(_queues), 1) = IdsOfEntries(enriched, 1)

\* a loaded queue with records in two lanes other than the first, the
\* snapshot listing the less urgent one first
C25_Witness ==
    /\ Loaded
    /\ Len(_queues[1]) = 0
    /\ Len(_queues[2]) > 0
    /\ Len(_queues[4]) > 0
    /\ _queues[4][1].appointment_id < _queues[2][1].appointment_id

\* ------------------------------------------------------------------------
\* Doctor isolation
\* ------------------------------------------------------------------------
\* C27 A doctor_dashboard request shows and changes only appointments whose
\*     doctor_id is the doctor_id of the account logged in, accounts made
\*     by signup included.
C27_DoctorIsolation ==
    [][ req'.handler = "doctor_dashboard" =>
          /\ \A i \in 1..Len(raw') : raw'[i].doctor_id = req'.session_doctor
          /\ \A i \in DOMAIN table :
                 table'[i] # table[i] =>
                     table[i].doctor_id = req'.session_doctor ]_vars

\* ------------------------------------------------------------------------
\* init_db
\* ------------------------------------------------------------------------
\* the preloaded accounts are in the users table, the doctor account linked
\* to doctor 1
Preloaded(d) ==
    /\ \E i \in 1..Len(d.users) :
         d.users[i].email = DoctorEmail /\ d.users[i].doctor_id = 1
    /\ HasEmail(d.users, PatientEmail)
    /\ d.doctors = Len(DoctorNames)

\* C28 init_db run on a fresh database completes and leaves the tables,
\*     the preloaded accounts, the doctors and the sample appointments; run
\*     on a database it has completed on, it changes nothing.
C28_InitDbIdempotent ==
    /\ (boot.runs > 0 /\ ~boot.before.tables) =>
          /\ boot.outcome = "completed"
          /\ db.tables
          /\ Preloaded(db)
          /\ db.appointments = NumSamples
    /\ boot.outcome = "completed" => init_db(db).db = db

====
